---- MODULE Spec2Model ----
(***************************************************************************)
(* Model of src/src/footprint_analyzer.py: the footprint-KPI accumulation  *)
(* of analyze_footprints_by_kpi and the outlier classification of          *)
(* calculate_outlier_footprints / determine_color.                         *)
(*                                                                         *)
(* Python floats are modelled as exact rationals <<numerator, denominator>>*)
(* with a positive denominator, kept in lowest terms; rounding of the      *)
(* binary floating point representation is not modelled.  Durations are    *)
(* modelled by their number of seconds.                                    *)
(***************************************************************************)
EXTENDS Integers, Sequences, FiniteSets, TLC

VARIABLES
    data,                 \* the event rows of every contract, in time order
    contracts,            \* the contracts argument (a list)
    kpi_data_mnummer,     \* the baseline KPI record argument
    extracted_footprints, \* footprints of the whole data, as iterated
    idx,                  \* position of the accumulation loop in contracts
    footprint_kpis,       \* footprint -> FootprintKpi accumulator
    footprint_contracts,  \* footprint -> list of contracts
    kpi_values,           \* returned means (parallel lists)
    diff_to_soll,         \* returned differences to baseline
    pc,                   \* "loop", "done", "error"; "classify"
    values,               \* values argument of calculate_outlier_footprints
    footprints,           \* footprints argument, parallel to values
    mean,                 \* mean argument
    sd,                   \* sd argument
    colors                \* kpi -> result of the classification run for kpi

vars == <<data, contracts, kpi_data_mnummer, extracted_footprints, idx,
          footprint_kpis, footprint_contracts, kpi_values, diff_to_soll, pc,
          values, footprints, mean, sd, colors>>

accVars == <<data, contracts, kpi_data_mnummer, extracted_footprints, idx,
             footprint_kpis, footprint_contracts, kpi_values, diff_to_soll>>

clsVars == <<values, footprints, mean, sd>>

-----------------------------------------------------------------------------
(* Bounds of the model *)

MaxRows == 2
MaxContracts == 2
MaxVal == 8
MaxMean == 1
MaxSd == 2

-----------------------------------------------------------------------------
(* Exact arithmetic standing for the float operations of the source *)

Abs(n) == IF n < 0 THEN -n ELSE n

RECURSIVE GCD(_, _)
GCD(a, b) == IF b = 0 THEN a ELSE GCD(b, a % b)

Rat(n, d) ==
    IF n = 0 THEN <<0, 1>>
    ELSE LET g == GCD(Abs(n), d) IN <<n \div g, d \div g>>

RAdd(a, b) == Rat(a[1] * b[2] + b[1] * a[2], a[2] * b[2])
RSub(a, b) == Rat(a[1] * b[2] - b[1] * a[2], a[2] * b[2])
RMulInt(k, a) == Rat(k * a[1], a[2])
RDivInt(a, k) == Rat(a[1], a[2] * k)
RLt(a, b) == a[1] * b[2] < b[1] * a[2]
RLe(a, b) == a[1] * b[2] <= b[1] * a[2]
RGt(a, b) == RLt(b, a)
RGe(a, b) == RLe(b, a)

Zero == <<0, 1>>

-----------------------------------------------------------------------------
(* Input data *)

ContractIds == {"X", "Y"}
Activities == {"A", "B"}
KPIs == {"OEE", "Lead Time", "Malfunction Duration", "Rejected Materials"}

\* The KPI columns of the i-th row of a contract (OEE as a ratio, the
\* durations in seconds, the rejected materials as a count).
KpiColumns(contract, i) ==
    IF contract = "X"
    THEN IF i % 2 = 1
         THEN [OEE |-> <<1, 1>>, LeadTime |-> <<40, 1>>,
               MalfunctionDuration |-> <<6, 1>>, RejectedMaterials |-> <<1, 1>>]
         ELSE [OEE |-> <<4, 5>>, LeadTime |-> <<20, 1>>,
               MalfunctionDuration |-> <<0, 1>>, RejectedMaterials |-> <<4, 1>>]
    ELSE IF i % 2 = 1
         THEN [OEE |-> <<3, 5>>, LeadTime |-> <<30, 1>>,
               MalfunctionDuration |-> <<2, 1>>, RejectedMaterials |-> <<0, 1>>]
         ELSE [OEE |-> <<4, 5>>, LeadTime |-> <<10, 1>>,
               MalfunctionDuration |-> <<5, 1>>, RejectedMaterials |-> <<2, 1>>]

\* One event: its activity ('Operation RelNr') and whether its
\* 'End Date Actual' is present.
Events == [act : Activities, done : BOOLEAN]

SeqsUpTo(S, n) == UNION { [1..k -> S] : k \in 0..n }

\* The rows of the data frame, per contract and in time order: the events
\* with their KPI columns.  A contract with no rows is absent from the data.
DataFrame(log) ==
    [c \in ContractIds |->
        [i \in DOMAIN log[c] |->
            [act |-> log[c][i].act, done |-> log[c][i].done,
             kpi |-> KpiColumns(c, i)]]]

\* The baseline record (kpi_data_mnummer) handed to the analysis.
Baselines ==
    { [OEE |-> <<3, 4>>, LeadTime |-> <<25, 1>>,
       MalfunctionDuration |-> <<2, 1>>, RejectedMaterials |-> <<2, 1>>] }

-----------------------------------------------------------------------------
(* Footprint discovery *)

\* data.loc[data['End Date Actual'].notna()] on the rows of one contract
NotNa(rows) == SelectSeq(rows, LAMBDA r : r.done)

\* pm4py.discover_footprints(...)['dfg'] on one case: the pairs of activities
\* adjacent in the case's time order
Dfg(rows) ==
    { <<rows[i].act, rows[i + 1].act>> : i \in 1..(Len(rows) - 1) }

\* Faulty variant of ContractFootprints: the rows without an end timestamp
\* are not removed (line 269 missing).
ContractFootprintsNoFilter(d, c) == Dfg(d[c])

\* footprints['dfg'] of the rows of one contract (lines 269-272)
ContractFootprints(d, c) == Dfg(NotNa(d[c]))

\* an iteration order of a dict's keys: arbitrary but fixed
RECURSIVE KeyOrder(_)
KeyOrder(S) ==
    IF S = {} THEN <<>>
    ELSE LET x == CHOOSE y \in S : TRUE IN <<x>> \o KeyOrder(S \ {x})

extract_footprints(d) ==
    KeyOrder(UNION { Dfg(NotNa(d[c])) : c \in DOMAIN d })

-----------------------------------------------------------------------------
(* analyze_footprints_by_kpi *)

RECURSIVE SumRows(_, _)
SumRows(rows, col) ==
    IF rows = <<>> THEN Zero
    ELSE RAdd(rows[1].kpi[col], SumRows(Tail(rows), col))

\* the 'mean' aggregation of one column over the rows of a group
MeanRows(rows, col) == RDivInt(SumRows(rows, col), Len(rows))

\* kpi_data of one contract: groupby(['Contract']).agg(...) gives one record
\* per group, so none when the contract has no rows
ContractKpiData(d, contract) ==
    LET pg_df_filtered == d[contract] IN
    IF pg_df_filtered = <<>> THEN <<>>
    ELSE << [Contract |-> contract,
             OEE |-> MeanRows(pg_df_filtered, "OEE"),
             LeadTime |-> MeanRows(pg_df_filtered, "LeadTime"),
             MalfunctionDuration |-> MeanRows(pg_df_filtered, "MalfunctionDuration"),
             RejectedMaterials |-> MeanRows(pg_df_filtered, "RejectedMaterials"),
             Counter |-> Len(pg_df_filtered)] >>

FootprintKpi(oee, lead_time, malfunction_duration, rejection_count, count) ==
    [oee |-> oee, lead_time |-> lead_time,
     malfunction_duration |-> malfunction_duration,
     rejection_count |-> rejection_count, count |-> count]

\* the first contribution to a footprint (line 280)
NewKpi(k) ==
    FootprintKpi(k.OEE, k.LeadTime, k.MalfunctionDuration, k.RejectedMaterials, 1)

\* Faulty variant of AddKpi: the count is not incremented.
AddKpiNoCount(old, k) ==
    FootprintKpi(RAdd(old.oee, k.OEE),
                 RAdd(old.lead_time, k.LeadTime),
                 RAdd(old.malfunction_duration, k.MalfunctionDuration),
                 RAdd(old.rejection_count, k.RejectedMaterials),
                 old.count)

\* Faulty variant of AddKpi: the sums are overwritten instead of added to.
AddKpiOverwrite(old, k) ==
    FootprintKpi(k.OEE, k.LeadTime, k.MalfunctionDuration, k.RejectedMaterials,
                 old.count + 1)

\* a later contribution to a footprint (lines 282-286)
AddKpi(old, k) ==
    FootprintKpi(RAdd(old.oee, k.OEE),
                 RAdd(old.lead_time, k.LeadTime),
                 RAdd(old.malfunction_duration, k.MalfunctionDuration),
                 RAdd(old.rejection_count, k.RejectedMaterials),
                 old.count + 1)

\* Faulty variant of AddContract: the list is replaced instead of extended.
AddContractReset(fc, fp, contract) ==
    IF fp \notin DOMAIN fc THEN fc @@ (fp :> <<contract>>)
    ELSE [fc EXCEPT ![fp] = <<contract>>]

\* the contract list of a footprint after a contribution (lines 288-291)
AddContract(fc, fp, contract) ==
    IF fp \notin DOMAIN fc THEN fc @@ (fp :> <<contract>>)
    ELSE [fc EXCEPT ![fp] = Append(@, contract)]

\* Faulty variant of MergeFp: the membership test of line 278 is missing.
MergeFpNoCheck(acc, fp, fps, kpi_data, contract) ==
    IF acc.raised THEN acc
    ELSE IF kpi_data = <<>> THEN [acc EXCEPT !.raised = TRUE]
    ELSE [acc EXCEPT
            !.kpis = IF fp \notin DOMAIN acc.kpis
                     THEN acc.kpis @@ (fp :> NewKpi(kpi_data[1]))
                     ELSE [acc.kpis EXCEPT ![fp] = AddKpi(@, kpi_data[1])],
            !.contracts = AddContract(acc.contracts, fp, contract)]

\* one pass of the inner loop body (lines 278-291); kpi_data['..'].iloc[0]
\* raises when kpi_data has no record
MergeFp(acc, fp, fps, kpi_data, contract) ==
    IF acc.raised \/ fp \notin fps THEN acc
    ELSE IF kpi_data = <<>> THEN [acc EXCEPT !.raised = TRUE]
    ELSE [acc EXCEPT
            !.kpis = IF fp \notin DOMAIN acc.kpis
                     THEN acc.kpis @@ (fp :> NewKpi(kpi_data[1]))
                     ELSE [acc.kpis EXCEPT ![fp] = AddKpi(@, kpi_data[1])],
            !.contracts = AddContract(acc.contracts, fp, contract)]

\* the inner loop over extracted_footprints (line 277)
RECURSIVE MergeLoop(_, _, _, _, _)
MergeLoop(acc, todo, fps, kpi_data, contract) ==
    IF todo = <<>> THEN acc
    ELSE MergeLoop(MergeFp(acc, Head(todo), fps, kpi_data, contract),
                   Tail(todo), fps, kpi_data, contract)

Empty == [x \in {} |-> x]

NoOutput ==
    [fp |-> <<>>, OEE |-> <<>>, LeadTime |-> <<>>,
     MalfunctionDuration |-> <<>>, RejectedMaterials |-> <<>>]

NoColors == [k \in {} |-> k]

Init ==
    /\ data \in { DataFrame(log) : log \in [ContractIds -> SeqsUpTo(Events, MaxRows)] }
    /\ contracts \in SeqsUpTo(ContractIds, MaxContracts)
    /\ kpi_data_mnummer \in Baselines
    /\ extracted_footprints = extract_footprints(data)
    /\ idx = 1
    /\ footprint_kpis = Empty
    /\ footprint_contracts = Empty
    /\ kpi_values = NoOutput
    /\ diff_to_soll = NoOutput
    /\ pc = "loop"
    /\ values = <<>>
    /\ footprints = <<>>
    /\ mean = Zero
    /\ sd = Zero
    /\ colors = NoColors

\* one iteration of the loop over contracts (lines 249-291)
MergeContract ==
    /\ pc = "loop"
    /\ idx <= Len(contracts)
    /\ LET contract == contracts[idx]
           kpi_data == ContractKpiData(data, contract)
           fps == ContractFootprints(data, contract)
           acc == MergeLoop([kpis |-> footprint_kpis,
                             contracts |-> footprint_contracts,
                             raised |-> FALSE],
                            extracted_footprints, fps, kpi_data, contract)
       IN /\ footprint_kpis' = acc.kpis
          /\ footprint_contracts' = acc.contracts
          /\ pc' = IF acc.raised THEN "error" ELSE "loop"
    /\ idx' = idx + 1
    /\ UNCHANGED <<data, contracts, kpi_data_mnummer, extracted_footprints,
                   kpi_values, diff_to_soll, values, footprints, mean, sd, colors>>

\* the footprints the second loop reports, in iteration order (lines 306-309)
Reported(fps, kpis) == SelectSeq(fps, LAMBDA fp : fp \in DOMAIN kpis)

\* the KPI means (lines 312-315)
FinalMean(total, count) == RDivInt(total, count)

\* Faulty variant of DiffToSoll: the operands are exchanged.
DiffToSollReversed(m, soll) == RSub(soll, m)

\* the differences to the baseline (lines 317-320)
DiffToSoll(m, soll) == RSub(m, soll)

\* the second loop and the returned tables (lines 295-337)
Finalize ==
    /\ pc = "loop"
    /\ idx > Len(contracts)
    /\ LET rep == Reported(extracted_footprints, footprint_kpis)
           oees == [i \in DOMAIN rep |->
                      FinalMean(footprint_kpis[rep[i]].oee, footprint_kpis[rep[i]].count)]
           lead_times == [i \in DOMAIN rep |->
                      FinalMean(footprint_kpis[rep[i]].lead_time, footprint_kpis[rep[i]].count)]
           malfunction_durations == [i \in DOMAIN rep |->
                      FinalMean(footprint_kpis[rep[i]].malfunction_duration,
                                footprint_kpis[rep[i]].count)]
           rejection_counts == [i \in DOMAIN rep |->
                      FinalMean(footprint_kpis[rep[i]].rejection_count,
                                footprint_kpis[rep[i]].count)]
       IN /\ kpi_values' =
                [fp |-> rep, OEE |-> oees, LeadTime |-> lead_times,
                 MalfunctionDuration |-> malfunction_durations,
                 RejectedMaterials |-> rejection_counts]
          /\ diff_to_soll' =
                [fp |-> rep,
                 OEE |-> [i \in DOMAIN rep |-> DiffToSoll(oees[i], kpi_data_mnummer.OEE)],
                 LeadTime |-> [i \in DOMAIN rep |->
                      DiffToSoll(lead_times[i], kpi_data_mnummer.LeadTime)],
                 MalfunctionDuration |-> [i \in DOMAIN rep |->
                      DiffToSoll(malfunction_durations[i],
                                 kpi_data_mnummer.MalfunctionDuration)],
                 RejectedMaterials |-> [i \in DOMAIN rep |->
                      DiffToSoll(rejection_counts[i],
                                 kpi_data_mnummer.RejectedMaterials)]]
    /\ pc' = "done"
    /\ UNCHANGED <<data, contracts, kpi_data_mnummer, extracted_footprints, idx,
                   footprint_kpis, footprint_contracts,
                   values, footprints, mean, sd, colors>>

Next == MergeContract \/ Finalize

Spec == Init /\ [][Next]_vars

-----------------------------------------------------------------------------
(* Outlier classification *)

red_pallete == <<"#F15A59", "#ED2B2A", "#D21312", "#850000">>
green_pallete == <<"#D0E7D2", "#B0D9B1", "#79AC78", "#618264">>

\* Faulty variant of AboveColor: the thresholds are exclusive.
AboveColorStrict(val, upper_bound, s, pallete) ==
    IF RLt(val, RAdd(upper_bound, s)) THEN pallete[1]
    ELSE IF RLt(val, RAdd(upper_bound, RMulInt(2, s))) THEN pallete[2]
    ELSE IF RLt(val, RAdd(upper_bound, RMulInt(3, s))) THEN pallete[3]
    ELSE pallete[4]

\* Faulty variant of AboveColor: two pallete entries are exchanged.
AboveColorSwappedLevels(val, upper_bound, s, pallete) ==
    IF RLe(val, RAdd(upper_bound, s)) THEN pallete[1]
    ELSE IF RLe(val, RAdd(upper_bound, RMulInt(2, s))) THEN pallete[3]
    ELSE IF RLe(val, RAdd(upper_bound, RMulInt(3, s))) THEN pallete[2]
    ELSE pallete[4]

\* the escalation above a crossed upper bound (lines 88-94, 107-113);
\* pallete[1] is the source's pallete[0]
AboveColor(val, upper_bound, s, pallete) ==
    IF RLe(val, RAdd(upper_bound, s)) THEN pallete[1]
    ELSE IF RLe(val, RAdd(upper_bound, RMulInt(2, s))) THEN pallete[2]
    ELSE IF RLe(val, RAdd(upper_bound, RMulInt(3, s))) THEN pallete[3]
    ELSE pallete[4]

\* Faulty variant of BelowColor: the thresholds are exclusive.
BelowColorStrict(val, lower_bound, s, pallete) ==
    IF RGt(val, RSub(lower_bound, s)) THEN pallete[1]
    ELSE IF RGt(val, RSub(lower_bound, RMulInt(2, s))) THEN pallete[2]
    ELSE IF RGt(val, RSub(lower_bound, RMulInt(3, s))) THEN pallete[3]
    ELSE pallete[4]

\* the escalation below a crossed lower bound (lines 96-102, 115-121)
BelowColor(val, lower_bound, s, pallete) ==
    IF RGe(val, RSub(lower_bound, s)) THEN pallete[1]
    ELSE IF RGe(val, RSub(lower_bound, RMulInt(2, s))) THEN pallete[2]
    ELSE IF RGe(val, RSub(lower_bound, RMulInt(3, s))) THEN pallete[3]
    ELSE pallete[4]

\* Faulty variant of determine_color: a value at a bound counts as beyond it.
determine_colorInclusive(val, upper_bound, lower_bound, s, reverse) ==
    IF reverse = TRUE
    THEN IF RGe(val, upper_bound) THEN AboveColor(val, upper_bound, s, green_pallete)
         ELSE IF RLe(val, lower_bound) THEN BelowColor(val, lower_bound, s, red_pallete)
         ELSE "blue"
    ELSE IF RGe(val, upper_bound) THEN AboveColor(val, upper_bound, s, red_pallete)
         ELSE IF RLe(val, lower_bound) THEN BelowColor(val, lower_bound, s, green_pallete)
         ELSE "blue"

determine_color(val, upper_bound, lower_bound, s, reverse) ==
    IF reverse = TRUE
    THEN IF RGt(val, upper_bound) THEN AboveColor(val, upper_bound, s, green_pallete)
         ELSE IF RLt(val, lower_bound) THEN BelowColor(val, lower_bound, s, red_pallete)
         ELSE "blue"
    ELSE IF RGt(val, upper_bound) THEN AboveColor(val, upper_bound, s, red_pallete)
         ELSE IF RLt(val, lower_bound) THEN BelowColor(val, lower_bound, s, green_pallete)
         ELSE "blue"

\* Faulty variant of FpColor: the two bounds are handed over exchanged.
FpColorSwappedBounds(val, m, s, kpi) ==
    IF kpi = "OEE"
    THEN determine_color(val, RSub(m, s), RAdd(m, RDivInt(s, 2)), s, TRUE)
    ELSE determine_color(val, RSub(m, RDivInt(s, 2)), RAdd(m, s), s, FALSE)

\* Faulty variant of FpColor: the KPI name is compared in the wrong case.
FpColorWrongName(val, m, s, kpi) ==
    IF kpi = "oee"
    THEN determine_color(val, RAdd(m, RDivInt(s, 2)), RSub(m, s), s, TRUE)
    ELSE determine_color(val, RAdd(m, s), RSub(m, RDivInt(s, 2)), s, FALSE)

\* fp_color of one value (lines 61-64)
FpColor(val, m, s, kpi) ==
    IF kpi = "OEE"
    THEN determine_color(val, RAdd(m, RDivInt(s, 2)), RSub(m, s), s, TRUE)
    ELSE determine_color(val, RAdd(m, s), RSub(m, RDivInt(s, 2)), s, FALSE)

calculate_outlier_footprints(fps, vals, m, s, kpi) ==
    LET out == SelectSeq([i \in DOMAIN vals |-> i],
                         LAMBDA i : FpColor(vals[i], m, s, kpi) # "blue")
    IN [outliers |-> [j \in DOMAIN out |-> fps[out[j]]],
        outlier_colors |-> [j \in DOMAIN out |-> FpColor(vals[out[j]], m, s, kpi)]]

\* The footprints handed to a classification run.
SampleFootprints == << <<"A", "B">>, <<"B", "A">> >>

\* Values on a grid of halves.
Half(i) == Rat(i, 2)

InitClassify ==
    /\ footprints = SampleFootprints
    /\ values \in [DOMAIN SampleFootprints -> { Half(i) : i \in (-MaxVal)..MaxVal }]
    /\ mean \in { Half(i) : i \in (-MaxMean)..MaxMean }
    /\ sd \in { Half(i) : i \in 0..MaxSd }
    /\ colors = NoColors
    /\ pc = "classify"
    /\ data = [c \in ContractIds |-> <<>>]
    /\ contracts = <<>>
    /\ kpi_data_mnummer \in Baselines
    /\ extracted_footprints = <<>>
    /\ idx = 1
    /\ footprint_kpis = Empty
    /\ footprint_contracts = Empty
    /\ kpi_values = NoOutput
    /\ diff_to_soll = NoOutput

\* one call of calculate_outlier_footprints, for one KPI
CalculateOutliers(kpi) ==
    /\ pc = "classify"
    /\ kpi \notin DOMAIN colors
    /\ colors' = colors @@
          (kpi :> calculate_outlier_footprints(footprints, values, mean, sd, kpi))
    /\ UNCHANGED <<accVars, clsVars, pc>>

NextClassify == \E kpi \in KPIs : CalculateOutliers(kpi)

SpecClassify == InitClassify /\ [][NextClassify]_vars

-----------------------------------------------------------------------------
(* Vocabulary of the properties *)

Range(f) == { f[i] : i \in DOMAIN f }

AllFootprints == Activities \X Activities

\* the whole-population footprint set
BaselineSet == Range(extracted_footprints)

\* the positions of the contracts list whose contract exhibits fp
Exhibiting(fp) ==
    SelectSeq([j \in DOMAIN contracts |-> j],
              LAMBDA j : fp \in ContractFootprints(data, contracts[j]))

RECURSIVE SumMeans(_, _)
SumMeans(js, col) ==
    IF js = <<>> THEN Zero
    ELSE RAdd(MeanRows(data[contracts[js[1]]], col), SumMeans(Tail(js), col))

Columns == {"OEE", "LeadTime", "MalfunctionDuration", "RejectedMaterials"}

\* C1: when the analysis has returned, a footprint is in kpi_values['fp'],
\* and is a key of footprint_contracts, if and only if it is in the
\* whole-population footprint set and some contract of the contracts list
\* exhibits it.
C1_ReportedIffBaselineAndExhibited ==
    pc = "done" =>
        \A fp \in AllFootprints :
            LET expected == fp \in BaselineSet /\ Exhibiting(fp) # <<>>
            IN /\ (fp \in Range(kpi_values.fp)) <=> expected
               /\ (fp \in DOMAIN footprint_contracts) <=> expected

C1_Witness ==
    /\ pc = "done"
    /\ \E fp \in BaselineSet : fp \notin Range(kpi_values.fp)
    /\ \E fp \in BaselineSet : fp \in Range(kpi_values.fp)

\* C2: when the analysis has returned, every reported value of every KPI is
\* the sum of the per-contract means of the contracts of the list that
\* exhibit the footprint, divided by the number of those contracts.
C2_MeanIsSumOverCount ==
    pc = "done" =>
        \A i \in DOMAIN kpi_values.fp : \A col \in Columns :
            LET js == Exhibiting(kpi_values.fp[i])
            IN /\ js # <<>>
               /\ kpi_values[col][i] = RDivInt(SumMeans(js, col), Len(js))

C2_Witness ==
    /\ pc = "done"
    /\ \E i \in DOMAIN kpi_values.fp :
          /\ Range(footprint_contracts[kpi_values.fp[i]]) = {"X", "Y"}
          /\ Len(footprint_contracts[kpi_values.fp[i]]) = 2
          /\ MeanRows(data["X"], "OEE") # MeanRows(data["Y"], "OEE")

\* C3: at every point of the accumulation every accumulator has count >= 1,
\* footprint_kpis and footprint_contracts have the same keys, each count is
\* the length of the footprint's contract list; and a step never removes an
\* accumulator, creates one with count 1 and otherwise leaves a count or adds
\* one to it, the contract list only growing at its end.
C3_StateInv ==
    /\ DOMAIN footprint_kpis = DOMAIN footprint_contracts
    /\ \A fp \in DOMAIN footprint_kpis :
          /\ footprint_kpis[fp].count >= 1
          /\ footprint_kpis[fp].count = Len(footprint_contracts[fp])

C3_Step ==
    /\ DOMAIN footprint_kpis \subseteq DOMAIN footprint_kpis'
    /\ \A fp \in DOMAIN footprint_kpis' :
          IF fp \in DOMAIN footprint_kpis
          THEN /\ footprint_kpis'[fp].count \in
                    {footprint_kpis[fp].count, footprint_kpis[fp].count + 1}
               /\ Len(footprint_contracts'[fp]) >= Len(footprint_contracts[fp])
               /\ SubSeq(footprint_contracts'[fp], 1, Len(footprint_contracts[fp]))
                    = footprint_contracts[fp]
          ELSE footprint_kpis'[fp].count = 1

C3_AccumulatorsOnlyGrow == [](C3_StateInv) /\ [][C3_Step]_vars

C3_Witness ==
    /\ pc = "loop"
    /\ \E fp \in DOMAIN footprint_kpis :
          /\ footprint_kpis[fp].count = 2
          /\ footprint_contracts[fp] = <<"X", "Y">>

-----------------------------------------------------------------------------
(* Vocabulary of the classification properties *)

RAbs(a) == <<Abs(a[1]), a[2]>>

IsRed(c) == c \in Range(red_pallete)
IsGreen(c) == c \in Range(green_pallete)

\* the colour the run for kpi gave the i-th value: that of its footprint
\* among the outliers, 'blue' when the footprint is not among them
ColorAt(kpi, i) ==
    LET r == colors[kpi]
        js == { j \in DOMAIN r.outliers : r.outliers[j] = footprints[i] }
    IN IF js = {} THEN "blue" ELSE r.outlier_colors[CHOOSE j \in js : TRUE]

\* 0 for neutral, otherwise the position in the pallete (1..4)
Severity(c) ==
    IF c = "blue" THEN 0
    ELSE CHOOSE n \in 1..4 : red_pallete[n] = c \/ green_pallete[n] = c

SeverityAt(kpi, i) == Severity(ColorAt(kpi, i))

\* the band edges as the properties state them
UpperOf(kpi) == IF kpi = "OEE" THEN RAdd(mean, RDivInt(sd, 2)) ELSE RAdd(mean, sd)
LowerOf(kpi) == IF kpi = "OEE" THEN RSub(mean, sd) ELSE RSub(mean, RDivInt(sd, 2))

\* the severity of a distance d > 0 beyond a band edge
LevelOf(d) ==
    IF RLe(d, sd) THEN 1
    ELSE IF RLe(d, RMulInt(2, sd)) THEN 2
    ELSE IF RLe(d, RMulInt(3, sd)) THEN 3
    ELSE 4

Ran == DOMAIN colors

\* C4: with a nonzero spread, in every classification run a value equal to
\* the mean, and every value strictly between the lower and the upper band
\* edge, is neutral ('blue', so not among the outliers).
C4_NeutralBand ==
    sd # Zero =>
        \A kpi \in Ran : \A i \in DOMAIN values :
            /\ values[i] = mean => ColorAt(kpi, i) = "blue"
            /\ (RLt(LowerOf(kpi), values[i]) /\ RLt(values[i], UpperOf(kpi)))
                  => ColorAt(kpi, i) = "blue"

C4_Witness ==
    /\ sd # Zero
    /\ Ran = KPIs
    /\ values[1] = mean
    /\ values[2] # mean
    /\ RLt(LowerOf("OEE"), values[2]) /\ RLt(values[2], UpperOf("OEE"))
    /\ ColorAt("OEE", 1) = "blue" /\ ColorAt("OEE", 2) = "blue"

\* C5: with a positive spread, in every classification run a value beyond a
\* band edge by the distance d has severity 1 when d <= spread, 2 when
\* spread < d <= 2*spread, 3 when 2*spread < d <= 3*spread and 4 beyond, on
\* the high side and on the low side alike.
C5_SeverityByDistance ==
    RGt(sd, Zero) =>
        \A kpi \in Ran : \A i \in DOMAIN values :
            /\ RGt(values[i], UpperOf(kpi)) =>
                  SeverityAt(kpi, i) = LevelOf(RSub(values[i], UpperOf(kpi)))
            /\ RLt(values[i], LowerOf(kpi)) =>
                  SeverityAt(kpi, i) = LevelOf(RSub(LowerOf(kpi), values[i]))

C5_Witness ==
    /\ RGt(sd, Zero)
    /\ Ran = KPIs
    /\ RSub(values[1], UpperOf("OEE")) = RMulInt(3, sd)
    /\ SeverityAt("OEE", 1) = 3
    /\ RLt(values[2], RSub(LowerOf("Lead Time"), RMulInt(3, sd)))
    /\ SeverityAt("Lead Time", 2) = 4

\* C6: for 'OEE' a value is labelled improved (green) exactly when it is
\* above mean + spread/2 and degraded (red) exactly when it is below
\* mean - spread; for every other KPI it is degraded (red) exactly when it is
\* above mean + spread and improved (green) exactly when it is below
\* mean - spread/2.
C6_DirectionAndBandEdges ==
    \A kpi \in Ran : \A i \in DOMAIN values :
        LET c == ColorAt(kpi, i)
            v == values[i]
        IN IF kpi = "OEE"
           THEN /\ IsGreen(c) <=> RGt(v, RAdd(mean, RDivInt(sd, 2)))
                /\ IsRed(c) <=> RLt(v, RSub(mean, sd))
           ELSE /\ IsRed(c) <=> RGt(v, RAdd(mean, sd))
                /\ IsGreen(c) <=> RLt(v, RSub(mean, RDivInt(sd, 2)))

C6_Witness ==
    /\ Ran = KPIs
    /\ RGt(sd, Zero)
    /\ IsGreen(ColorAt("OEE", 1)) /\ ColorAt("Lead Time", 1) = "blue"
    /\ IsRed(ColorAt("OEE", 2)) /\ IsGreen(ColorAt("Rejected Materials", 2))

\* C7: with a positive spread and epsilon > 0, the value mean + spread +
\* epsilon in a run for a KPI other than 'OEE' and the value mean - spread -
\* epsilon in the run for 'OEE' get the same severity.
C7_MirrorSymmetry ==
    (RGt(sd, Zero) /\ "OEE" \in Ran) =>
        \A kpi \in Ran \ {"OEE"} : \A i, j \in DOMAIN values :
            LET eps == RSub(RSub(values[i], mean), sd)
            IN (RGt(eps, Zero) /\ values[j] = RSub(RSub(mean, sd), eps))
                  => SeverityAt(kpi, i) = SeverityAt("OEE", j)

C7_Witness ==
    /\ RGt(sd, Zero)
    /\ Ran = KPIs
    /\ values[1] = RAdd(mean, RMulInt(3, sd))
    /\ values[2] = RSub(mean, RMulInt(3, sd))
    /\ SeverityAt("Malfunction Duration", 1) = 2
    /\ SeverityAt("OEE", 2) = 2

\* C8 as stated: with a positive spread, in every run, a value at most as
\* far from the mean as another, on whichever side, has at most its severity.
C8_MonotoneInDistanceAnySide ==
    RGt(sd, Zero) =>
        \A kpi \in Ran : \A i, j \in DOMAIN values :
            RLe(RAbs(RSub(values[i], mean)), RAbs(RSub(values[j], mean)))
                => SeverityAt(kpi, i) <= SeverityAt(kpi, j)

\* C8 as amended: with a positive spread, in every run, of two values on the
\* same side of the mean the one at most as far from the mean has at most
\* the severity of the other.
C8_MonotoneInDistanceSameSide ==
    RGt(sd, Zero) =>
        \A kpi \in Ran : \A i, j \in DOMAIN values :
            ( /\ \/ RGe(values[i], mean) /\ RGe(values[j], mean)
                 \/ RLe(values[i], mean) /\ RLe(values[j], mean)
              /\ RLe(RAbs(RSub(values[i], mean)), RAbs(RSub(values[j], mean))) )
                => SeverityAt(kpi, i) <= SeverityAt(kpi, j)

C8_Witness ==
    /\ RGt(sd, Zero)
    /\ Ran = KPIs
    /\ RGt(values[1], mean) /\ RGt(values[2], values[1])
    /\ SeverityAt("Lead Time", 1) = 1
    /\ SeverityAt("Lead Time", 2) = 3

Bands == {"blue"} \cup Range(red_pallete) \cup Range(green_pallete)

\* C9 as stated: with spread 0 every value gets one of the nine bands, a
\* value equal to the bound has severity at least 1 and a value beyond the
\* bound has severity 4.
C9_ZeroSpreadBoundIsOutlier ==
    sd = Zero =>
        \A kpi \in Ran : \A i \in DOMAIN values :
            /\ ColorAt(kpi, i) \in Bands
            /\ values[i] = mean => SeverityAt(kpi, i) >= 1
            /\ values[i] # mean => SeverityAt(kpi, i) = 4

\* C9 as amended: with spread 0 every value gets one of the nine bands, a
\* value equal to the bound is neutral and a value beyond the bound has
\* severity 4.
C9_ZeroSpreadBoundIsNeutral ==
    sd = Zero =>
        \A kpi \in Ran : \A i \in DOMAIN values :
            /\ ColorAt(kpi, i) \in Bands
            /\ values[i] = mean => SeverityAt(kpi, i) = 0
            /\ values[i] # mean => SeverityAt(kpi, i) = 4

C9_Witness ==
    /\ sd = Zero
    /\ Ran = KPIs
    /\ values[1] = mean
    /\ RLt(values[2], mean)
    /\ SeverityAt("OEE", 2) = 4

-----------------------------------------------------------------------------
(* End-to-end scenario *)

\* the contracts list holds exactly X and Y, both exhibit (A, B), the OEE
\* mean of X is 0.9, that of Y is 0.7 and the baseline OEE is 0.75
Scenario ==
    /\ Len(contracts) = 2 /\ Range(contracts) = {"X", "Y"}
    /\ <<"A", "B">> \in ContractFootprints(data, "X")
    /\ <<"A", "B">> \in ContractFootprints(data, "Y")
    /\ MeanRows(data["X"], "OEE") = <<9, 10>>
    /\ MeanRows(data["Y"], "OEE") = <<7, 10>>
    /\ kpi_data_mnummer.OEE = <<3, 4>>

\* C10: in the scenario the analysis reports for (A, B) the OEE mean 0.8 and
\* the difference +0.05 to the baseline, and the classification of the
\* reported OEE values against mean 0.75 and spread 0.05 for 'OEE' puts
\* (A, B) among the outliers with the first green pallete entry.
C10_EndToEnd ==
    (pc = "done" /\ Scenario) =>
        /\ \E i \in DOMAIN kpi_values.fp :
              /\ kpi_values.fp[i] = <<"A", "B">>
              /\ kpi_values.OEE[i] = <<4, 5>>
              /\ diff_to_soll.OEE[i] = <<1, 20>>
        /\ LET r == calculate_outlier_footprints(kpi_values.fp, kpi_values.OEE,
                                                 <<3, 4>>, <<1, 20>>, "OEE")
           IN \E j \in DOMAIN r.outliers :
                 /\ r.outliers[j] = <<"A", "B">>
                 /\ r.outlier_colors[j] = green_pallete[1]

C10_Witness == pc = "done" /\ Scenario

-----------------------------------------------------------------------------
(* Contracts without rows *)

\* the positions of the contracts list whose contract has no row in data
Missing == { j \in DOMAIN contracts : data[contracts[j]] = <<>> }

-----------------------------------------------------------------------------
(* Order of the contracts *)

\* the loop over contracts (lines 249-291) run over the list cs
RECURSIVE AccumulateAll(_, _, _, _)
AccumulateAll(acc, d, fps, cs) ==
    IF cs = <<>> THEN acc
    ELSE AccumulateAll(
            MergeLoop(acc, fps, ContractFootprints(d, Head(cs)),
                      ContractKpiData(d, Head(cs)), Head(cs)),
            d, fps, Tail(cs))

\* the orders in which the contracts list can be processed
Reorderings(cs) ==
    { [i \in DOMAIN cs |-> cs[p[i]]] : p \in Permutations(DOMAIN cs) }

Occurrences(seq, x) == Cardinality({ i \in DOMAIN seq : seq[i] = x })

SameBag(s, t) == \A c \in ContractIds : Occurrences(s, c) = Occurrences(t, c)

\* C12: when the analysis has returned, processing the contracts in any other
\* order gives the same accumulators (keys, sums and counts), hence the same
\* reported footprints, means and differences to the baseline, and for each
\* footprint a contract list with the same contracts the same number of
\* times.
C12_OrderIndependent ==
    pc = "done" =>
        \A cs \in Reorderings(contracts) :
            LET acc == AccumulateAll([kpis |-> Empty, contracts |-> Empty,
                                      raised |-> FALSE],
                                     data, extracted_footprints, cs)
                rep == Reported(extracted_footprints, acc.kpis)
            IN /\ ~acc.raised
               /\ acc.kpis = footprint_kpis
               /\ DOMAIN acc.contracts = DOMAIN footprint_contracts
               /\ \A fp \in DOMAIN acc.contracts :
                     SameBag(acc.contracts[fp], footprint_contracts[fp])
               /\ rep = kpi_values.fp
               /\ \A i \in DOMAIN rep :
                     LET k == acc.kpis[rep[i]] IN
                     /\ kpi_values.OEE[i] = FinalMean(k.oee, k.count)
                     /\ kpi_values.LeadTime[i] = FinalMean(k.lead_time, k.count)
                     /\ kpi_values.MalfunctionDuration[i]
                           = FinalMean(k.malfunction_duration, k.count)
                     /\ kpi_values.RejectedMaterials[i]
                           = FinalMean(k.rejection_count, k.count)
                     /\ diff_to_soll.OEE[i]
                           = DiffToSoll(FinalMean(k.oee, k.count), kpi_data_mnummer.OEE)
                     /\ diff_to_soll.LeadTime[i]
                           = DiffToSoll(FinalMean(k.lead_time, k.count),
                                        kpi_data_mnummer.LeadTime)
                     /\ diff_to_soll.MalfunctionDuration[i]
                           = DiffToSoll(FinalMean(k.malfunction_duration, k.count),
                                        kpi_data_mnummer.MalfunctionDuration)
                     /\ diff_to_soll.RejectedMaterials[i]
                           = DiffToSoll(FinalMean(k.rejection_count, k.count),
                                        kpi_data_mnummer.RejectedMaterials)

C12_Witness ==
    /\ pc = "done"
    /\ contracts = <<"Y", "X">>
    /\ \E fp \in DOMAIN footprint_contracts : footprint_contracts[fp] = <<"Y", "X">>
    /\ \A col \in Columns : MeanRows(data["X"], col) # MeanRows(data["Y"], col)

-----------------------------------------------------------------------------
(* Contract footprints and the baseline *)

\* the contracts merged so far
Merged == SubSeq(contracts, 1, idx - 1)

\* C13: the footprints of every contract are footprints of the whole data,
\* and once a contract of the list is merged each of its footprints has an
\* accumulator and lists the contract as often as it was merged: the
\* membership test discards no footprint a contract exhibits.
C13_ContractFootprintsInBaseline ==
    /\ \A c \in ContractIds : ContractFootprints(data, c) \subseteq BaselineSet
    /\ pc \in {"loop", "done"} =>
          \A j \in DOMAIN Merged :
              \A fp \in ContractFootprints(data, Merged[j]) :
                  /\ fp \in DOMAIN footprint_kpis
                  /\ fp \in DOMAIN footprint_contracts
                  /\ Occurrences(footprint_contracts[fp], Merged[j])
                        = Occurrences(Merged, Merged[j])

C13_Witness ==
    /\ pc = "done"
    /\ contracts = <<"X", "Y">>
    /\ ContractFootprints(data, "X") # {}
    /\ ContractFootprints(data, "Y") # {}
    /\ ContractFootprints(data, "X") # ContractFootprints(data, "Y")
    /\ \A c \in ContractIds : \A fp \in ContractFootprints(data, c) :
          footprint_contracts[fp] = <<c>>

====
